---- MODULE Spec2Model ----
(***************************************************************************)
(* Model of sieve.py: the primeSieve generator (the order in which the     *)
(* Sieve of Eratosthenes yields primes and composites) and the mainWindow  *)
(* playback (on_draw ticks, on_key_press resizes, drawNumbers layout).     *)
(***************************************************************************)
EXTENDS Integers, Sequences, FiniteSets, TLC

\* ------------------------------------------------------------------------
\* Bounds of the model
\* ------------------------------------------------------------------------
\* primeSieve is explored for every grid size 1..MaxGenSize
MaxGenSize == 18

\* ------------------------------------------------------------------------
\* Program constants
\* ------------------------------------------------------------------------
TIME_AFTER_COMPLETION == 35
\* variant: one pause marker too few
PADDING_Short == [k \in 1..(TIME_AFTER_COMPLETION - 1) |-> <<1, "C">>]
\* variant: the pause markers point at cell 2
PADDING_Two == [k \in 1..TIME_AFTER_COMPLETION |-> <<2, "C">>]
PADDING == [k \in 1..TIME_AFTER_COMPLETION |-> <<1, "C">>]
LIGHT_BLUE == "LIGHT_BLUE"
RED == "RED"
\* pyglet.window.key symbols used by on_key_press (ASCII codes)
KEY_1 == 49
KEY_9 == 57
KEY_Q == 113
\* int(symbol) - 39 : the offset that turns a digit key into N
KEY_OFFSET == 39
\* key codes just outside the digit keys, and the keys that would ask for
\* the sizes 3 and 25 (symbol - 39)
KeySymbols == {42, 48} \cup (KEY_1..KEY_9) \cup {58, 64, KEY_Q}
\* --dimensions: its default and the clamp of the driver
DEFAULT_DIMENSIONS == 800
MIN_DIMENSIONS == 800
MAX_DIMENSIONS == 2000
\* self.N = 10 in __init__
INITIAL_N == 10

\* ------------------------------------------------------------------------
\* primeSieve(LIMIT), a generator: its frame is the record
\*   [pc, LIMIT, sieve, startIndex, prime, i, out]
\* where out is the list of the pairs yielded so far.
\* ------------------------------------------------------------------------

\* the frame before the first next()
GenFrame(L) ==
    [pc |-> "start", LIMIT |-> L, sieve |-> <<>>, startIndex |-> 0,
     prime |-> 0, i |-> 0, out |-> <<>>]

\* np.zeros(LIMIT - 2, dtype=bool), indexed 0 .. LIMIT-3
NpZeros(n) == [k \in 0..(n - 1) |-> FALSE]

\* variant: the marking pass starts at the prime itself
RangeStart_FromPrime(prime) == prime - 2

\* range(prime**2 - 2, LIMIT - 2, prime): first index of the marking pass
RangeStart(prime) == prime^2 - 2

\* variant: the scan always advances by 2
ScanStride_Two(startIndex) == 2

\* startIndex += 1 if startIndex == 0 else 2
ScanStride(startIndex) == IF startIndex = 0 THEN 1 ELSE 2

\* yield 1, "C" ; sieve = np.zeros(LIMIT - 2) ; startIndex = 0
YieldOne(g) ==
    [g EXCEPT !.out = Append(g.out, <<1, "C">>),
              !.sieve = NpZeros(g.LIMIT - 2),
              !.startIndex = 0,
              !.pc = "while"]

\* while (startIndex < LIMIT - 2), condition false: the generator returns
WhileExit(g) == [g EXCEPT !.pc = "done"]

\* if not sieve[startIndex]: prime = startIndex + 2 ; yield prime, "P" ;
\* the for loop is entered at i = prime**2 - 2
YieldPrime(g) ==
    [g EXCEPT !.prime = g.startIndex + 2,
              !.out = Append(g.out, <<g.startIndex + 2, "P">>),
              !.i = RangeStart(g.startIndex + 2),
              !.pc = "for"]

\* sieve[startIndex] is set: only the stride statement runs
SkipMarked(g) ==
    [g EXCEPT !.startIndex = g.startIndex + ScanStride(g.startIndex)]

\* variant: the index is yielded instead of the number it stands for
MarkMultiple_NoOffset(g) ==
    [g EXCEPT !.sieve = [g.sieve EXCEPT ![g.i] = TRUE],
              !.out = Append(g.out, <<g.i, "C">>),
              !.i = g.i + g.prime]

\* one iteration of the for loop: sieve[i] = True ; yield i + 2, "C"
MarkMultiple(g) ==
    [g EXCEPT !.sieve = [g.sieve EXCEPT ![g.i] = TRUE],
              !.out = Append(g.out, <<g.i + 2, "C">>),
              !.i = g.i + g.prime]

\* the range is exhausted: the stride statement runs, back to the while
ForExit(g) ==
    [g EXCEPT !.startIndex = g.startIndex + ScanStride(g.startIndex),
              !.pc = "while"]

\* which statement the generator executes next
GenStep(g) ==
    CASE g.pc = "start" -> YieldOne(g)
      [] g.pc = "while" /\ ~(g.startIndex < g.LIMIT - 2) -> WhileExit(g)
      [] g.pc = "while" /\ g.startIndex < g.LIMIT - 2
                        /\ ~g.sieve[g.startIndex] -> YieldPrime(g)
      [] g.pc = "while" /\ g.startIndex < g.LIMIT - 2
                        /\ g.sieve[g.startIndex] -> SkipMarked(g)
      [] g.pc = "for" /\ g.i < g.LIMIT - 2 -> MarkMultiple(g)
      [] g.pc = "for" /\ ~(g.i < g.LIMIT - 2) -> ForExit(g)
      [] OTHER -> g

\* n statements of the generator (a finished generator stays finished)
RECURSIVE GenSteps(_, _)
GenSteps(g, n) ==
    IF g.pc = "done" \/ n = 0 THEN g
    ELSE IF n = 1 THEN GenStep(g)
    ELSE GenSteps(GenSteps(g, n \div 2), n - (n \div 2))

\* the generator run to exhaustion, LIMIT statements at a time
RECURSIVE RunGen(_)
RunGen(g) == IF g.pc = "done" THEN g.out ELSE RunGen(GenSteps(g, g.LIMIT))

\* list(primeSieve(LIMIT))
primeSieve(L) == RunGen(GenFrame(L))

\* int(symbol) - 39 for every key of the model but Q
KeySizes == {symbol - KEY_OFFSET : symbol \in KeySymbols \ {KEY_Q}}

\* list(primeSieve(self.N**2 + 1)) + list(PADDING), for every size a key of
\* the model could ask for (evaluated once)
SieveData == [n \in KeySizes |-> primeSieve(n^2 + 1) \o PADDING]

\* ------------------------------------------------------------------------
\* mainWindow.drawNumbers: the loop over number = 1 .. N**2.  width / N is
\* not an integer in general, so every coordinate is kept multiplied by N:
\* x_coord * N = width * ((number - 1) % N), y_decrement * N = width.
\* The loop frame is [N, width, number, y_coord, coordinate_info].
\* ------------------------------------------------------------------------
DrawNumbersFrame(n, w) ==
    [N |-> n, width |-> w, number |-> 1, y_coord |-> w * n,
     coordinate_info |-> <<>>]

\* variant: the row changes before the first number of a row is placed
NextYCoord_Early(l) ==
    IF (l.number - 1) % l.N = 0 THEN l.y_coord - l.width ELSE l.y_coord

\* if number % self.N == 0: y_coord -= y_decrement
NextYCoord(l) ==
    IF l.number % l.N = 0 THEN l.y_coord - l.width ELSE l.y_coord

\* one iteration: coordinate_info[number] = (x_coord, y_coord - width/N)
DrawNumbersBody(l) ==
    [l EXCEPT !.coordinate_info =
                  Append(l.coordinate_info,
                         <<l.width * ((l.number - 1) % l.N),
                           l.y_coord - l.width>>),
              !.y_coord = NextYCoord(l),
              !.number = l.number + 1]

\* n iterations of the loop (it ends after number = N**2)
RECURSIVE DrawNumbersLoop(_, _)
DrawNumbersLoop(l, n) ==
    IF l.number > l.N^2 \/ n = 0 THEN l
    ELSE IF n = 1 THEN DrawNumbersBody(l)
    ELSE DrawNumbersLoop(DrawNumbersLoop(l, n \div 2), n - (n \div 2))

\* the returned dictionary, keys 1 .. N**2
drawNumbers(n, w) ==
    DrawNumbersLoop(DrawNumbersFrame(n, w), n^2).coordinate_info

\* variant: the squares keep pyglet's default visible = True
drawSquares_Visible(n, info) ==
    [num \in 1..(n^2) |->
        [x |-> info[num][1], y |-> info[num][2],
         color |-> LIGHT_BLUE, visible |-> TRUE]]

\* variant: the loop stops one square early
drawSquares_Short(n, info) ==
    [num \in 1..(n^2 - 1) |->
        [x |-> info[num][1], y |-> info[num][2],
         color |-> LIGHT_BLUE, visible |-> FALSE]]

\* drawSquares: N**2 rectangles at info[num], all with visible = False.
\* The Python list is indexed from 0: squares_list[num - 1] is element num.
drawSquares(n, info) ==
    [num \in 1..(n^2) |->
        [x |-> info[num][1], y |-> info[num][2],
         color |-> LIGHT_BLUE, visible |-> FALSE]]

\* DIMENSIONS = min(max(800, args['dimensions'][0]), 2000)
ClampDimensions(arg) ==
    LET lo == IF arg > MIN_DIMENSIONS THEN arg ELSE MIN_DIMENSIONS
    IN  IF lo < MAX_DIMENSIONS THEN lo ELSE MAX_DIMENSIONS

\* --dimensions arguments tried at launch
DimensionArgs == {500, DEFAULT_DIMENSIONS, 2500}

\* self.drawNumbers() and the drawSquares(...) that follows it, for every
\* size and window dimension that occurs (evaluated once)
NumberLayout ==
    [n \in KeySizes, w \in {ClampDimensions(a) : a \in DimensionArgs} |->
        drawNumbers(n, w)]
HiddenSquares ==
    [n \in KeySizes, w \in {ClampDimensions(a) : a \in DimensionArgs} |->
        drawSquares(n, NumberLayout[n, w])]

\* ------------------------------------------------------------------------
\* State
\* ------------------------------------------------------------------------
VARIABLES
    gen,            \* frame of a primeSieve generator being consumed
    width,          \* self.width = self.height = DIMENSIONS
    N,              \* self.N
    data,           \* self.data
    currentIndex,   \* self.currentIndex
    square_coords,  \* self.square_coords
    square_list,    \* self.square_list
    status,         \* "running", "closed" (self.close()) or "error"
    lastEvent,      \* history: the handler that ran last, with its argument
    ticks           \* history: on_draw calls since the animation (re)started

windowVars == <<width, N, data, currentIndex, square_coords, square_list,
                status, lastEvent, ticks>>
vars == <<gen, windowVars>>

\* mainWindow.__init__ on a window of dimension w
InitWindow(w) ==
    /\ width = w
    /\ N = INITIAL_N
    /\ square_coords = NumberLayout[INITIAL_N, w]
    /\ data = SieveData[INITIAL_N]
    /\ square_list = HiddenSquares[INITIAL_N, w]
    /\ currentIndex = 0
    /\ status = "running"
    /\ lastEvent = <<"init", 0>>
    /\ ticks = 0

\* ------------------------------------------------------------------------
\* The window: Spec
\* ------------------------------------------------------------------------
Init ==
    /\ gen = GenFrame(2)
    /\ \E arg \in DimensionArgs : InitWindow(ClampDimensions(arg))

\* the element a Python list of length len holds at index k (negative
\* indices count from the end); 0 when k is out of range (IndexError)
ListIndex(k, len) ==
    IF 0 <= k /\ k < len THEN k + 1
    ELSE IF k < 0 /\ -len <= k THEN len + k + 1
    ELSE 0

\* variant: the two colours are exchanged
RevealSquare_Swapped(sq, type) ==
    [sq EXCEPT !.visible = TRUE,
               !.color = IF type = "C" THEN RED ELSE LIGHT_BLUE]

\* on_draw: the square written by this frame
RevealSquare(sq, type) ==
    [sq EXCEPT !.visible = TRUE,
               !.color = IF type = "C" THEN LIGHT_BLUE ELSE RED]

\* variant: the reset comes one frame early
CycleComplete_Early(index, len) == index = len - 1

\* variant: the reset comes one frame late
CycleComplete_Late(index, len) == index = len + 1

\* if self.currentIndex == len(self.data)
CycleComplete(index, len) == index = len

\* variant: the reset rebuilds self.data and forgets the padding
on_draw_Regenerate ==
    /\ status = "running"
    /\ lastEvent' = <<"draw", 0>>
    /\ IF ListIndex(currentIndex, Len(data)) = 0
       THEN /\ status' = "error"
            /\ UNCHANGED <<gen, width, N, data, currentIndex, square_coords,
                           square_list, ticks>>
       ELSE LET entry == data[ListIndex(currentIndex, Len(data))]
                currentNum == entry[1]
                type == entry[2]
                cell == ListIndex(currentNum - 1, Len(square_list))
            IN  IF cell = 0
                THEN /\ status' = "error"
                     /\ UNCHANGED <<gen, width, N, data, currentIndex,
                                    square_coords, square_list, ticks>>
                ELSE /\ IF CycleComplete(currentIndex + 1, Len(data))
                        THEN /\ currentIndex' = 0
                             /\ square_list' = drawSquares(N, square_coords)
                             /\ data' = SubSeq(data, 1, Len(data)
                                                - TIME_AFTER_COMPLETION)
                        ELSE /\ currentIndex' = currentIndex + 1
                             /\ square_list' =
                                  [square_list EXCEPT
                                     ![cell] = RevealSquare(@, type)]
                             /\ data' = data
                     /\ ticks' = IF ticks + 1 = Len(data) THEN 0
                                 ELSE ticks + 1
                     /\ UNCHANGED <<gen, width, N, square_coords, status>>

on_draw ==
    /\ status = "running"
    /\ lastEvent' = <<"draw", 0>>
    /\ IF ListIndex(currentIndex, Len(data)) = 0
       THEN /\ status' = "error"
            /\ UNCHANGED <<gen, width, N, data, currentIndex, square_coords,
                           square_list, ticks>>
       ELSE LET entry == data[ListIndex(currentIndex, Len(data))]
                currentNum == entry[1]
                type == entry[2]
                cell == ListIndex(currentNum - 1, Len(square_list))
            IN  IF cell = 0
                THEN /\ status' = "error"
                     /\ UNCHANGED <<gen, width, N, data, currentIndex,
                                    square_coords, square_list, ticks>>
                ELSE /\ IF CycleComplete(currentIndex + 1, Len(data))
                        THEN /\ currentIndex' = 0
                             /\ square_list' = drawSquares(N, square_coords)
                        ELSE /\ currentIndex' = currentIndex + 1
                             /\ square_list' =
                                  [square_list EXCEPT
                                     ![cell] = RevealSquare(@, type)]
                     /\ ticks' = IF ticks + 1 = Len(data) THEN 0
                                 ELSE ticks + 1
                     /\ UNCHANGED <<gen, width, N, data, square_coords,
                                    status>>

\* variant: the comparison with self.N is missing
ResizeRequested_Always(symbol, n) == KEY_1 <= symbol /\ symbol <= KEY_9

\* variant: the lower end of the key range is off by one
ResizeRequested_FromZero(symbol, n) ==
    KEY_1 - 1 <= symbol /\ symbol <= KEY_9 /\ symbol - KEY_OFFSET # n

\* key._1 <= symbol <= key._9 and int(symbol) - 39 != self.N
ResizeRequested(symbol, n) ==
    KEY_1 <= symbol /\ symbol <= KEY_9 /\ symbol - KEY_OFFSET # n

\* variant: the offset is off by one
KeyToN_Off(symbol) == symbol - KEY_OFFSET - 1

\* self.N = int(symbol) - 39
KeyToN(symbol) == symbol - KEY_OFFSET

on_key_press(symbol) ==
    /\ status = "running"
    /\ lastEvent' = <<"key", symbol>>
    /\ status' = IF symbol = KEY_Q THEN "closed" ELSE status
    /\ IF ResizeRequested(symbol, N)
       THEN /\ N' = KeyToN(symbol)
            /\ square_coords' = NumberLayout[KeyToN(symbol), width]
            /\ square_list' = HiddenSquares[KeyToN(symbol), width]
            /\ currentIndex' = 0
            /\ data' = SieveData[KeyToN(symbol)]
            /\ ticks' = 0
       ELSE UNCHANGED <<N, square_coords, square_list, currentIndex, data,
                        ticks>>
    /\ UNCHANGED <<gen, width>>

KeyPress == \E symbol \in KeySymbols : on_key_press(symbol)

Next == on_draw \/ KeyPress

Spec == Init /\ [][Next]_vars

\* ------------------------------------------------------------------------
\* The generator consumed one statement at a time: SpecGen
\* ------------------------------------------------------------------------
GenSizes == 1..MaxGenSize

InitGen ==
    /\ \E size \in GenSizes : gen = GenFrame(size^2 + 1)
    /\ InitWindow(DEFAULT_DIMENSIONS)

GenYieldOne ==
    /\ gen.pc = "start"
    /\ gen' = YieldOne(gen)
    /\ UNCHANGED windowVars

GenWhileExit ==
    /\ gen.pc = "while" /\ ~(gen.startIndex < gen.LIMIT - 2)
    /\ gen' = WhileExit(gen)
    /\ UNCHANGED windowVars

GenYieldPrime ==
    /\ gen.pc = "while" /\ gen.startIndex < gen.LIMIT - 2
    /\ ~gen.sieve[gen.startIndex]
    /\ gen' = YieldPrime(gen)
    /\ UNCHANGED windowVars

GenSkipMarked ==
    /\ gen.pc = "while" /\ gen.startIndex < gen.LIMIT - 2
    /\ gen.sieve[gen.startIndex]
    /\ gen' = SkipMarked(gen)
    /\ UNCHANGED windowVars

GenMarkMultiple ==
    /\ gen.pc = "for" /\ gen.i < gen.LIMIT - 2
    /\ gen' = MarkMultiple(gen)
    /\ UNCHANGED windowVars

GenForExit ==
    /\ gen.pc = "for" /\ ~(gen.i < gen.LIMIT - 2)
    /\ gen' = ForExit(gen)
    /\ UNCHANGED windowVars

NextGen ==
    \/ GenYieldOne
    \/ GenWhileExit
    \/ GenYieldPrime
    \/ GenSkipMarked
    \/ GenMarkMultiple
    \/ GenForExit

SpecGen == InitGen /\ [][NextGen]_vars

\* ------------------------------------------------------------------------
\* Well-formedness of the model
\* ------------------------------------------------------------------------
TypeOK ==
    /\ gen.pc \in {"start", "while", "for", "done"}
    /\ N \in Nat
    /\ currentIndex \in Nat
    /\ status \in {"running", "closed", "error"}
    /\ ticks \in Nat

\* the two readings of the generator agree
GenAgrees == gen.pc = "done" => gen.out = primeSieve(gen.LIMIT)

\* ------------------------------------------------------------------------
\* Vocabulary of the properties
\* ------------------------------------------------------------------------
\* how often value v has been yielded
Emissions(out, v) == Cardinality({k \in DOMAIN out : out[k][1] = v})

\* v has a divisor other than 1 and v
HasProperDivisor(v) == \E d \in 2..(v - 1) : v % d = 0

\* the digit printed on a digit key: key._1 is digit 1
DigitOf(symbol) == symbol - KEY_1 + 1
IsDigitKey(symbol) == KEY_1 <= symbol /\ symbol <= KEY_9
\* the grid size asked for by a key, quit excepted
IsKey(ev) == ev[1] = "key"

AllHidden == \A c \in DOMAIN square_list : ~square_list[c].visible
SomeRevealed == \E c \in DOMAIN square_list : square_list[c].visible

\* the cell laid out for a value: (row from the top, column from the left).
\* Coordinates are multiplied by N, so one cell is width wide and high and
\* the window is width * N high; a cell's top edge is y + width.
CellRow(value) == (width * N - (square_coords[value][2] + width)) \div width
CellColumn(value) == square_coords[value][1] \div width
cellPosition(value) == <<CellRow(value), CellColumn(value)>>
OnCellBoundary(value) ==
    /\ square_coords[value][1] % width = 0
    /\ square_coords[value][2] % width = 0

\* ------------------------------------------------------------------------
\* Properties of primeSieve (SpecGen)
\* ------------------------------------------------------------------------

\* C1: for every size, generate(size^2 + 1) emits every integer of
\* 1..size^2 exactly once, size^2 emissions in all.
C1_ExactlyOnce ==
    gen.pc = "done" =>
        /\ Len(gen.out) = gen.LIMIT - 1
        /\ \A v \in 1..(gen.LIMIT - 1) : Emissions(gen.out, v) = 1

\* C2: every emitted (v, kind) has kind = Composite iff v = 1 or v has a
\* divisor other than 1 and v, and kind = Prime otherwise; no value is
\* emitted with two kinds.
C2_KindCorrect ==
    gen.pc = "done" =>
        \A k \in DOMAIN gen.out :
            LET v == gen.out[k][1]
                kind == gen.out[k][2]
            IN  /\ v \in 1..(gen.LIMIT - 1)
                /\ kind \in {"P", "C"}
                /\ kind = "C" <=> (v = 1 \/ HasProperDivisor(v))
                /\ \A j \in DOMAIN gen.out :
                       gen.out[j][1] = v => gen.out[j][2] = kind

C2_Witness ==
    /\ gen.pc = "done"
    /\ gen.LIMIT = 101
    /\ \E k \in DOMAIN gen.out : gen.out[k] = <<97, "P">>
    /\ \E k \in DOMAIN gen.out : gen.out[k] = <<91, "C">>

\* C3: for size 10 the first ten emissions are 1C 2P 4C 6C 8C 10C 12C 14C
\* 16C 18C in this order; 1 is always the first emission.
FirstTen ==
    << <<1, "C">>, <<2, "P">>, <<4, "C">>, <<6, "C">>, <<8, "C">>,
       <<10, "C">>, <<12, "C">>, <<14, "C">>, <<16, "C">>, <<18, "C">> >>

C3_FirstTen ==
    /\ Len(gen.out) >= 1 => gen.out[1] = <<1, "C">>
    /\ gen.LIMIT = 101 =>
           \A k \in 1..10 : k <= Len(gen.out) => gen.out[k] = FirstTen[k]

C3_Witness ==
    /\ gen.LIMIT = 101
    /\ Len(gen.out) = 10
    /\ gen.pc = "for"
    /\ gen.prime = 2

\* C4: a marking pass emits only multiples not marked by an earlier pass
\* (no value is emitted by two passes); for size 10 the emissions that
\* follow (3,P) are (9,C), (15,C), (21,C).
C4_UnmarkedOnly ==
    /\ \A k \in DOMAIN gen.out :
           (k < Len(gen.out)) => gen.out[k][1] # gen.out[Len(gen.out)][1]
    /\ gen.LIMIT = 101 =>
           \A k \in DOMAIN gen.out :
               (gen.out[k] = <<3, "P">> /\ Len(gen.out) >= k + 3) =>
                   /\ gen.out[k + 1] = <<9, "C">>
                   /\ gen.out[k + 2] = <<15, "C">>
                   /\ gen.out[k + 3] = <<21, "C">>

\* ------------------------------------------------------------------------
\* Properties of the window (Spec)
\* ------------------------------------------------------------------------

\* C5: from the state after construction or after a resize, exactly
\* len(data) calls of on_draw bring back currentIndex = 0 with every cell
\* hidden and the same sequence; after fewer calls currentIndex is not 0.
\* (ticks counts the calls since then, modulo len(data).)
C5_CycleIdempotence ==
    status # "error" =>
        /\ ticks = 0 => /\ currentIndex = 0
                        /\ AllHidden
                        /\ Len(square_list) = N^2
                        /\ data = SieveData[N]
        /\ ticks # 0 => currentIndex # 0

C5_Witness ==
    /\ lastEvent = <<"draw", 0>>
    /\ ticks = 0
    /\ N = 11
    /\ currentIndex = 0

\* C6: a digit key that selects a size different from the current one leaves
\* N = the new size, data = list(primeSieve(N^2 + 1)) followed by the 35
\* pause markers, currentIndex = 0 and all N^2 cells hidden.
C6_Reconfigure ==
    [][\A symbol \in KeySymbols :
          (/\ lastEvent' = <<"key", symbol>>
           /\ status = "running"
           /\ IsDigitKey(symbol)
           /\ DigitOf(symbol) + 9 # N)
          => /\ N' = DigitOf(symbol) + 9
             /\ Len(data') >= TIME_AFTER_COMPLETION
             /\ data' = SieveData[N']
             /\ \A k \in 1..TIME_AFTER_COMPLETION :
                    data'[Len(data') - TIME_AFTER_COMPLETION + k] = <<1, "C">>
             /\ currentIndex' = 0
             /\ Len(square_list') = N' * N'
             /\ \A c \in DOMAIN square_list' : ~square_list'[c].visible]_vars

C6_Witness ==
    /\ lastEvent = <<"key", KEY_9>>
    /\ N = 18
    /\ currentIndex = 0
    /\ ticks = 0
    /\ AllHidden

\* C7: a digit key that selects the current size changes nothing: N, data,
\* currentIndex, the cells and the layout stay as they are.
C7_SameSizeNoOp ==
    [][\A symbol \in KeySymbols :
          (/\ lastEvent' = <<"key", symbol>>
           /\ status = "running"
           /\ IsDigitKey(symbol)
           /\ DigitOf(symbol) + 9 = N)
          => UNCHANGED <<N, data, currentIndex, square_list, square_coords,
                         ticks, status>>]_vars

C7_Witness ==
    /\ IsKey(lastEvent)
    /\ IsDigitKey(lastEvent[2])
    /\ DigitOf(lastEvent[2]) + 9 = N
    /\ currentIndex > 0
    /\ SomeRevealed

C9_DigitToSize ==
    /\ (IsKey(lastEvent) /\ IsDigitKey(lastEvent[2])) =>
           N = DigitOf(lastEvent[2]) + 9
    /\ N \in 10..18

C9_Witness ==
    /\ lastEvent = <<"key", KEY_9>>
    /\ N = 18
    /\ currentIndex > 0

\* C10: the cell laid out for value is in row (value - 1) div N from the top
\* and column (value - 1) mod N from the left; for N = 10: 1 -> (0,0),
\* 10 -> (0,9), 11 -> (1,0), 100 -> (9,9).
C10_CoordinateMapping ==
    /\ DOMAIN square_coords = 1..(N^2)
    /\ \A value \in 1..(N^2) :
           /\ OnCellBoundary(value)
           /\ CellRow(value) = (value - 1) \div N
           /\ CellColumn(value) = (value - 1) % N
           /\ square_list[value].x = square_coords[value][1]
           /\ square_list[value].y = square_coords[value][2]
    /\ N = 10 => /\ cellPosition(1) = <<0, 0>>
                 /\ cellPosition(10) = <<0, 9>>
                 /\ cellPosition(11) = <<1, 0>>
                 /\ cellPosition(100) = <<9, 9>>

C10_Witness ==
    /\ N = 18
    /\ lastEvent = <<"key", KEY_9>>
    /\ cellPosition(324) = <<17, 17>>
    /\ cellPosition(19) = <<1, 0>>

\* ------------------------------------------------------------------------
\* Properties of the playback (Spec), continued
\* ------------------------------------------------------------------------
AllRevealed ==
    /\ Len(square_list) = N^2
    /\ \A c \in DOMAIN square_list : square_list[c].visible

IsDraw(ev) == ev = <<"draw", 0>>

\* C11: in a cycle the on_draw calls that start with every cell revealed
\* are exactly the last 35 of the cycle (the grid becomes complete by the
\* call that reads the last pair of primeSieve, not earlier); they follow
\* one another and the 35th leaves all cells hidden and currentIndex = 0.
C11_Dwell ==
    [][(IsDraw(lastEvent') /\ status' = "running") =>
          /\ AllRevealed <=> currentIndex >= Len(data) - 35
          /\ currentIndex < Len(data) - 1 => currentIndex' = currentIndex + 1
          /\ currentIndex = Len(data) - 1 =>
                 /\ currentIndex' = 0
                 /\ Len(square_list') = N^2
                 /\ \A c \in DOMAIN square_list' : ~square_list'[c].visible
      ]_vars

C11_Witness ==
    /\ IsDraw(lastEvent)
    /\ N = 12
    /\ currentIndex = Len(data) - 1
    /\ AllRevealed

\* C12: an on_draw that reads a pause marker finds cell 1 revealed as
\* composite and every cell revealed, and changes no cell, the call that
\* completes the cycle excepted.
C12_PauseNoEffect ==
    [][(/\ IsDraw(lastEvent') /\ status' = "running"
        /\ currentIndex >= Len(data) - 35)
       => /\ data[currentIndex + 1] = <<1, "C">>
          /\ square_list[1].visible
          /\ square_list[1].color = LIGHT_BLUE
          /\ AllRevealed
          /\ currentIndex < Len(data) - 1 => square_list' = square_list
      ]_vars

C12_Witness ==
    /\ IsDraw(lastEvent)
    /\ N = 13
    /\ currentIndex = Len(data) - 30
    /\ AllRevealed

\* C13: in every state 0 <= currentIndex < len(data), and no on_draw has
\* read past the end of data (status "error"), whatever the interleaving of
\* on_draw calls and key presses.
C13_IndexInRange ==
    /\ status # "error"
    /\ 0 <= currentIndex
    /\ currentIndex < Len(data)

C13_Witness ==
    /\ IsDraw(lastEvent)
    /\ N = 14
    /\ currentIndex = Len(data) - 1

\* C14: on_draw never changes data or N, also when it resets the cycle;
\* data changes only in a key press that selects a different size.
C14_SequenceFixed ==
    [][/\ IsDraw(lastEvent') => (data' = data /\ N' = N)
       /\ (data' # data \/ N' # N) =>
              /\ IsKey(lastEvent')
              /\ IsDigitKey(lastEvent'[2])
              /\ N' = DigitOf(lastEvent'[2]) + 9
              /\ N' # N
      ]_vars

C14_Witness ==
    /\ IsDraw(lastEvent)
    /\ N = 13
    /\ currentIndex = 0
    /\ ticks = 0
    /\ data = SieveData[13]

\* ------------------------------------------------------------------------
\* Properties of primeSieve (SpecGen), continued
\* ------------------------------------------------------------------------
\* the smallest divisor of m above 1 (a prime)
SmallestFactor(m) == CHOOSE p \in 2..m : m % p = 0 /\ \A d \in 2..(p - 1) : m % d # 0

\* the position of the first yield of value v, 0 when it is never yielded
FirstEmission(out, v) ==
    IF \E k \in DOMAIN out : out[k][1] = v
    THEN CHOOSE k \in DOMAIN out :
             out[k][1] = v /\ \A j \in 1..(k - 1) : out[j][1] # v
    ELSE 0

\* C15: for every size 2..18 and every composite m in 4..size^2 with
\* smallest prime factor p, the first emission of m comes after (p, Prime)
\* and before the next prime is emitted; the emissions are not in ascending
\* order.
C15_DiscoveryOrder ==
    (gen.pc = "done" /\ gen.LIMIT >= 5) =>
        /\ \A m \in 4..(gen.LIMIT - 1) :
               HasProperDivisor(m) =>
                   LET p == SmallestFactor(m)
                       atP == FirstEmission(gen.out, p)
                       atM == FirstEmission(gen.out, m)
                   IN  /\ atP > 0
                       /\ gen.out[atP] = <<p, "P">>
                       /\ atM > atP
                       /\ \A k \in (atP + 1)..atM : gen.out[k][2] = "C"
        /\ \E k \in 1..(Len(gen.out) - 1) : gen.out[k][1] > gen.out[k + 1][1]

C15_Witness ==
    /\ gen.pc = "done"
    /\ gen.LIMIT = 325
    /\ FirstEmission(gen.out, 323) > FirstEmission(gen.out, 17)
    /\ FirstEmission(gen.out, 323) < FirstEmission(gen.out, 19)
    /\ FirstEmission(gen.out, 18) < FirstEmission(gen.out, 17)

\* ------------------------------------------------------------------------
\* Properties of the playback (Spec), continued
\* ------------------------------------------------------------------------

\* C16: in every state data has exactly N^2 + 35 entries (N^2 pairs of
\* primeSieve and 35 pause markers), and each of the first N^2 on_draw calls
\* of a cycle reveals a cell that was hidden.
C16_SequenceLength ==
    [][/\ Len(data) = N^2 + 35
       /\ (IsDraw(lastEvent') /\ status' = "running" /\ currentIndex < N^2) =>
              /\ ~square_list[data[currentIndex + 1][1]].visible
              /\ square_list'[data[currentIndex + 1][1]].visible
      ]_vars

\* C17: in every state the cell list has N^2 cells, laid out for the
\* current N, and every entry of data (pause markers included) has a value
\* in 1..N^2, so that on_draw's square_list[currentNum - 1] is in range.
C17_SizesAgree ==
    /\ status # "error"
    /\ Len(square_list) = N^2
    /\ DOMAIN square_coords = 1..(N^2)
    /\ \A k \in DOMAIN data : data[k][1] \in 1..(N^2)
    /\ \A c \in DOMAIN square_list :
           /\ square_list[c].x = width * ((c - 1) % N)
           /\ square_list[c].y = width * (N - 1 - ((c - 1) \div N))

C17_Witness ==
    /\ IsDraw(lastEvent)
    /\ N = 15
    /\ currentIndex = 5
    /\ Len(square_list) = 225

\* the colour on_draw gives a cell of the given kind
ColorOf(type) == IF type = "C" THEN LIGHT_BLUE ELSE RED

\* the values of data[0 .. currentIndex - 1]
RevealedValues == {data[k][1] : k \in 1..currentIndex}

\* C18: the visible cells are exactly the values of
\* data[0 .. currentIndex - 1], each in the colour of the kind data gives it
\* (none when currentIndex = 0), and data is the sequence of the current
\* size: what is shown is a function of N and currentIndex.
C18_RevealedPrefix ==
    /\ data = SieveData[N]
    /\ \A c \in DOMAIN square_list :
           square_list[c].visible <=> c \in RevealedValues
    /\ \A k \in 1..currentIndex :
           square_list[data[k][1]].color = ColorOf(data[k][2])
    /\ currentIndex = 0 => AllHidden

C18_Witness ==
    /\ IsDraw(lastEvent)
    /\ N = 10
    /\ currentIndex = 60
    /\ square_list[12].visible
    /\ square_list[3].color = RED
    /\ ~square_list[97].visible

====
